---------------------------- MODULE Spec2Model ----------------------------
(***************************************************************************)
(* A model of pitch_type_vs_count.py: the chi-square analysis of pitch     *)
(* type against ball-strike count for the 2019 and 2022 seasons.           *)
(*                                                                         *)
(* Real numbers are exact rationals [num, den] in lowest terms with        *)
(* den > 0; the float NaN is the record [num |-> 0, den |-> 0].  A p-value *)
(* that is a value of the chi-square survival function is the record       *)
(* [sf |-> statistic, dof |-> degrees of freedom]: it stands for the       *)
(* number chi2.sf(statistic, dof) and is compared through the critical     *)
(* value.  The residuals, which the code rounds, are computed in binary64  *)
(* arithmetic, bit by bit.  A missing label (a NaN in a text column) is    *)
(* the string NaN and a missing release_speed is the empty sequence        *)
(* NoSpeed.                                                                *)
(***************************************************************************)
EXTENDS Integers, Sequences, FiniteSets, TLC

\* ------------------------------------------------------------------ bounds
\* Longest table of pitch records the contingency/chi-square inputs range over.
MaxRecords == 4
\* Longest table of pitch records the most-likely-pitch inputs range over.
MaxPitchRecords == 3
\* Largest denominator of the p-values given to analyze_independence.
MaxPDen == 40

\* ------------------------------------------------------------------ values
NaN == "NaN"
NoSpeed == << >>
Seasons == <<"2019", "2022">>
SeasonSet == {"2019", "2022"}
AllColumns == {"pitch_type", "count", "release_speed"}

\* Labels in the order pandas sorts them (lexicographic).
LabelOrder == <<"0-0", "3-2", "CU", "FF", "SL">>
Rank(l) == CHOOSE i \in DOMAIN LabelOrder : LabelOrder[i] = l

\* ------------------------------------------------------- rational arithmetic
RECURSIVE GCD(_, _)
GCD(a, b) == IF b = 0 THEN a ELSE GCD(b, a % b)

AbsInt(n) == IF n < 0 THEN -n ELSE n

Rat(n, d) ==
    LET g == GCD(AbsInt(n), d)
    IN  [num |-> n \div g, den |-> d \div g]

RatInt(n) == [num |-> n, den |-> 1]
RatNaN == [num |-> 0, den |-> 0]
IsNaN(a) == a.den = 0
\* The operands are in lowest terms; common factors are taken out before the
\* products are formed, which keeps them small.  The arithmetic is exact as
\* long as every product stays below 2^31, which tables of up to about a
\* hundred records do.
RatAdd(a, b) ==
    LET g == GCD(a.den, b.den)
    IN  Rat(a.num * (b.den \div g) + b.num * (a.den \div g), (a.den \div g) * b.den)
RatSub(a, b) == RatAdd(a, [num |-> -b.num, den |-> b.den])
RatMul(a, b) ==
    LET g == GCD(AbsInt(a.num), b.den)
        h == GCD(AbsInt(b.num), a.den)
    IN  IF a.num = 0 \/ b.num = 0 THEN RatInt(0)
        ELSE [num |-> (a.num \div g) * (b.num \div h),
              den |-> (a.den \div h) * (b.den \div g)]
\* a / b for b > 0
RatDiv(a, b) == RatMul(a, [num |-> b.den, den |-> b.num])
RatAbs(a) == [num |-> AbsInt(a.num), den |-> a.den]
\* IEEE comparison: every comparison with a NaN is false
RatLt(a, b) == ~IsNaN(a) /\ ~IsNaN(b) /\ a.num * b.den < b.num * a.den
RatLe(a, b) == ~IsNaN(a) /\ ~IsNaN(b) /\ a.num * b.den <= b.num * a.den
RatMin(a, b) == IF RatLt(b, a) THEN b ELSE a
RatSign(a) == IF a.num > 0 THEN 1 ELSE IF a.num < 0 THEN -1 ELSE 0

RECURSIVE RatSum(_, _)
\* sum of f[x] over the finite set S
RatSum(f, S) ==
    IF S = {} THEN RatInt(0)
    ELSE LET x == CHOOSE y \in S : TRUE
         IN  RatAdd(f[x], RatSum(f, S \ {x}))

\* ------------------------------------------------------------- data frames
\* A DataFrame: the columns it has and its rows.  A row is a PitchRecord.
Frame(cols, rows) == [columns |-> cols, rows |-> rows]

Rows(data) == DOMAIN data.rows

\* A variant of CrosstabKept that keeps the rows with a missing label, so that
\* NaN becomes a row or column of the table.
CrosstabKept_KeepMissing(data) == Rows(data)

\* ------------------------------------------------------ pd.crosstab (l. 30)
\* groupby drops every row with a missing key; the labels that remain are the
\* index and the columns, and a cell counts the rows with that pair of labels.
CrosstabKept(data) ==
    {i \in Rows(data) : data.rows[i].pitch_type # NaN /\ data.rows[i].count # NaN}

\* A variant of CrosstabCell that marks the pairs that occur instead of
\* counting their rows.
CrosstabCell_Presence(data, kept, ptype, count) ==
    IF \E i \in kept : data.rows[i].pitch_type = ptype /\ data.rows[i].count = count
    THEN 1 ELSE 0

\* aggfunc=len: the number of kept rows with the labels (ptype, count)
CrosstabCell(data, kept, ptype, count) ==
    Cardinality({i \in kept : /\ data.rows[i].pitch_type = ptype
                              /\ data.rows[i].count = count})

crosstab(data) ==
    LET kept == CrosstabKept(data)
        idx  == {data.rows[i].pitch_type : i \in kept}
        cols == {data.rows[i].count : i \in kept}
    IN  [index   |-> idx,
         columns |-> cols,
         cell    |-> [k \in idx \X cols |-> CrosstabCell(data, kept, k[1], k[2])]]

\* sums of a table of integers
RECURSIVE IntSum(_, _)
IntSum(f, S) ==
    IF S = {} THEN 0
    ELSE LET x == CHOOSE y \in S : TRUE
         IN  f[x] + IntSum(f, S \ {x})

TableTotal(t) == IntSum(t.cell, t.index \X t.columns)
RowTotal(t, r) == IntSum(t.cell, {r} \X t.columns)
ColTotal(t, c) == IntSum(t.cell, t.index \X {c})

\* ------------------------------------------- scipy.stats.chi2_contingency
\* A variant of expected_freq that uses the row total for both margins.
expected_freq_RowTwice(observed) ==
    [k \in observed.index \X observed.columns |->
        Rat(RowTotal(observed, k[1]) * RowTotal(observed, k[1]),
            TableTotal(observed))]

\* expected_freq: row total * column total / grand total
expected_freq(observed) ==
    [k \in observed.index \X observed.columns |->
        Rat(RowTotal(observed, k[1]) * ColTotal(observed, k[2]),
            TableTotal(observed))]

\* A variant of YatesAdjusted that always moves the observation by 0.5, even
\* past the expected value.
YatesAdjusted_NoClamp(obs, exp) ==
    RatAdd(obs, RatMul(Rat(1, 2), RatInt(RatSign(RatSub(exp, obs)))))

\* Yates' correction for continuity, applied by chi2_contingency when dof = 1:
\* observed + min(0.5, |expected - observed|) * sign(expected - observed)
YatesAdjusted(obs, exp) ==
    LET diff == RatSub(exp, obs)
    IN  RatAdd(obs, RatMul(RatMin(Rat(1, 2), RatAbs(diff)), RatInt(RatSign(diff))))

\* power_divergence with lambda_ = 1 (Pearson): sum (f_obs - f_exp)^2 / f_exp
Pearson(fobs, fexp, cells) ==
    RatSum([k \in cells |->
              LET d == RatSub(fobs[k], fexp[k])
              IN  RatDiv(RatMul(d, d), fexp[k])], cells)

\* The upper 5% points of the chi-square distribution for 1 to 66 degrees of
\* freedom, cut after 18 decimals: chi2.sf(x, dof) < 0.05 exactly when x is
\* above the point.  The points are irrational, so no statistic equals one,
\* and the decimals left out are not all 0.
Chi2Crit05 ==
    <<
        [int |-> 3, frac |-> <<8, 4, 1, 4, 5, 8, 8, 2, 0, 6, 9, 4, 1, 2, 5, 9, 5, 8>>],
        [int |-> 5, frac |-> <<9, 9, 1, 4, 6, 4, 5, 4, 7, 1, 0, 7, 9, 8, 1, 9, 8, 6>>],
        [int |-> 7, frac |-> <<8, 1, 4, 7, 2, 7, 9, 0, 3, 2, 5, 1, 1, 7, 9, 9, 5, 5>>],
        [int |-> 9, frac |-> <<4, 8, 7, 7, 2, 9, 0, 3, 6, 7, 8, 1, 1, 5, 6, 7, 5, 1>>],
        [int |-> 11, frac |-> <<0, 7, 0, 4, 9, 7, 6, 9, 3, 5, 1, 6, 3, 5, 4, 1, 7, 8>>],
        [int |-> 12, frac |-> <<5, 9, 1, 5, 8, 7, 2, 4, 3, 7, 4, 3, 9, 7, 9, 4, 8, 3>>],
        [int |-> 14, frac |-> <<0, 6, 7, 1, 4, 0, 4, 4, 9, 3, 4, 0, 1, 6, 8, 7, 4, 2>>],
        [int |-> 15, frac |-> <<5, 0, 7, 3, 1, 3, 0, 5, 5, 8, 6, 5, 4, 5, 3, 8, 2, 2>>],
        [int |-> 16, frac |-> <<9, 1, 8, 9, 7, 7, 6, 0, 4, 6, 2, 0, 4, 4, 9, 8, 2, 7>>],
        [int |-> 18, frac |-> <<3, 0, 7, 0, 3, 8, 0, 5, 3, 2, 7, 5, 1, 4, 6, 8, 7, 1>>],
        [int |-> 19, frac |-> <<6, 7, 5, 1, 3, 7, 5, 7, 2, 6, 8, 2, 4, 9, 5, 5, 1, 3>>],
        [int |-> 21, frac |-> <<0, 2, 6, 0, 6, 9, 8, 1, 7, 4, 8, 3, 0, 6, 5, 3, 9, 6>>],
        [int |-> 22, frac |-> <<3, 6, 2, 0, 3, 2, 4, 9, 4, 8, 2, 6, 9, 3, 9, 8, 6, 5>>],
        [int |-> 23, frac |-> <<6, 8, 4, 7, 9, 1, 3, 0, 4, 8, 4, 0, 5, 7, 9, 7, 8, 1>>],
        [int |-> 24, frac |-> <<9, 9, 5, 7, 9, 0, 1, 3, 9, 7, 2, 8, 6, 3, 0, 3, 8, 3>>],
        [int |-> 26, frac |-> <<2, 9, 6, 2, 2, 7, 6, 0, 4, 8, 6, 4, 2, 3, 9, 5, 2, 6>>],
        [int |-> 27, frac |-> <<5, 8, 7, 1, 1, 1, 6, 3, 8, 2, 7, 5, 3, 2, 4, 0, 1, 2>>],
        [int |-> 28, frac |-> <<8, 6, 9, 2, 9, 9, 4, 3, 0, 3, 9, 2, 6, 3, 4, 9, 2, 9>>],
        [int |-> 30, frac |-> <<1, 4, 3, 5, 2, 7, 2, 0, 5, 6, 4, 6, 1, 5, 9, 2, 3, 1>>],
        [int |-> 31, frac |-> <<4, 1, 0, 4, 3, 2, 8, 4, 4, 2, 3, 0, 9, 2, 6, 5, 5, 3>>],
        [int |-> 32, frac |-> <<6, 7, 0, 5, 7, 3, 3, 4, 0, 9, 1, 7, 3, 0, 5, 3, 5, 2>>],
        [int |-> 33, frac |-> <<9, 2, 4, 4, 3, 8, 4, 7, 1, 4, 4, 3, 8, 0, 2, 9, 3, 5>>],
        [int |-> 35, frac |-> <<1, 7, 2, 4, 6, 1, 6, 2, 6, 9, 0, 8, 0, 5, 9, 0, 3, 2>>],
        [int |-> 36, frac |-> <<4, 1, 5, 0, 2, 8, 5, 0, 1, 8, 0, 7, 3, 1, 3, 5, 0, 1>>],
        [int |-> 37, frac |-> <<6, 5, 2, 4, 8, 4, 1, 3, 3, 4, 8, 2, 7, 7, 8, 3, 4, 6>>],
        [int |-> 38, frac |-> <<8, 8, 5, 1, 3, 8, 6, 5, 9, 8, 3, 0, 0, 4, 0, 3, 8, 5>>],
        [int |-> 40, frac |-> <<1, 1, 3, 2, 7, 2, 0, 6, 9, 4, 1, 3, 6, 2, 9, 0, 0, 7>>],
        [int |-> 41, frac |-> <<3, 3, 7, 1, 3, 8, 1, 5, 1, 4, 2, 7, 3, 9, 7, 7, 6, 2>>],
        [int |-> 42, frac |-> <<5, 5, 6, 9, 6, 7, 8, 0, 4, 2, 9, 2, 6, 8, 5, 0, 6, 4>>],
        [int |-> 43, frac |-> <<7, 7, 2, 9, 7, 1, 8, 2, 5, 7, 4, 2, 1, 8, 7, 9, 6, 4>>],
        [int |-> 44, frac |-> <<9, 8, 5, 3, 4, 3, 2, 8, 0, 3, 6, 5, 1, 3, 5, 6, 9, 7>>],
        [int |-> 46, frac |-> <<1, 9, 4, 2, 5, 9, 5, 2, 0, 2, 7, 8, 4, 7, 0, 6, 0, 8>>],
        [int |-> 47, frac |-> <<3, 9, 9, 8, 8, 3, 9, 1, 9, 0, 8, 0, 9, 1, 7, 5, 3, 6>>],
        [int |-> 48, frac |-> <<6, 0, 2, 3, 6, 7, 3, 6, 7, 2, 9, 4, 1, 9, 0, 3, 9, 0>>],
        [int |-> 49, frac |-> <<8, 0, 1, 8, 4, 9, 5, 6, 8, 2, 0, 1, 8, 6, 8, 0, 0, 0>>],
        [int |-> 50, frac |-> <<9, 9, 8, 4, 6, 0, 1, 6, 5, 7, 1, 0, 6, 4, 6, 2, 4, 8>>],
        [int |-> 52, frac |-> <<1, 9, 2, 3, 1, 9, 7, 3, 0, 1, 0, 2, 8, 7, 5, 6, 6, 7>>],
        [int |-> 53, frac |-> <<3, 8, 3, 5, 4, 0, 6, 2, 2, 9, 6, 9, 3, 0, 1, 1, 6, 0>>],
        [int |-> 54, frac |-> <<5, 7, 2, 2, 2, 7, 7, 5, 8, 9, 4, 1, 7, 3, 4, 0, 1, 5>>],
        [int |-> 55, frac |-> <<7, 5, 8, 4, 7, 9, 2, 7, 8, 8, 8, 7, 0, 3, 2, 0, 5, 7>>],
        [int |-> 56, frac |-> <<9, 4, 2, 3, 8, 7, 1, 4, 6, 8, 2, 4, 1, 0, 2, 2, 3, 5>>],
        [int |-> 58, frac |-> <<1, 2, 4, 0, 3, 7, 6, 8, 0, 8, 6, 8, 0, 3, 0, 6, 9, 7>>],
        [int |-> 59, frac |-> <<3, 0, 3, 5, 1, 2, 0, 2, 6, 8, 9, 9, 8, 1, 1, 3, 0, 8>>],
        [int |-> 60, frac |-> <<4, 8, 0, 8, 8, 6, 5, 8, 2, 3, 3, 6, 4, 4, 1, 6, 8, 8>>],
        [int |-> 61, frac |-> <<6, 5, 6, 2, 3, 3, 3, 7, 6, 2, 7, 9, 5, 6, 4, 7, 5, 1>>],
        [int |-> 62, frac |-> <<8, 2, 9, 6, 2, 0, 4, 1, 1, 4, 0, 8, 1, 7, 9, 8, 7, 0>>],
        [int |-> 64, frac |-> <<0, 0, 1, 1, 1, 1, 9, 7, 2, 2, 1, 8, 0, 2, 9, 3, 8, 9>>],
        [int |-> 65, frac |-> <<1, 7, 0, 7, 6, 8, 9, 0, 3, 5, 6, 9, 8, 3, 7, 2, 9, 6>>],
        [int |-> 66, frac |-> <<3, 3, 8, 6, 4, 8, 8, 6, 2, 9, 6, 8, 8, 1, 6, 1, 2, 8>>],
        [int |-> 67, frac |-> <<5, 0, 4, 8, 0, 6, 5, 4, 9, 5, 4, 1, 1, 9, 9, 9, 6, 9>>],
        [int |-> 68, frac |-> <<6, 6, 9, 2, 9, 3, 9, 1, 2, 2, 8, 5, 7, 9, 6, 7, 2, 8>>],
        [int |-> 69, frac |-> <<8, 3, 2, 1, 6, 0, 3, 3, 9, 8, 4, 8, 1, 3, 4, 5, 5, 5>>],
        [int |-> 70, frac |-> <<9, 9, 3, 4, 5, 2, 8, 3, 3, 7, 8, 2, 2, 7, 9, 3, 5, 9>>],
        [int |-> 72, frac |-> <<1, 5, 3, 2, 1, 6, 1, 6, 7, 0, 2, 3, 0, 9, 5, 7, 2, 3>>],
        [int |-> 73, frac |-> <<3, 1, 1, 4, 9, 3, 0, 2, 9, 0, 8, 3, 2, 5, 1, 6, 2, 7>>],
        [int |-> 74, frac |-> <<4, 6, 8, 3, 2, 4, 1, 5, 9, 3, 0, 9, 3, 7, 2, 1, 2, 5>>],
        [int |-> 75, frac |-> <<6, 2, 3, 7, 4, 8, 4, 6, 9, 3, 7, 6, 0, 6, 8, 6, 9, 7>>],
        [int |-> 76, frac |-> <<7, 7, 7, 8, 0, 3, 1, 5, 6, 0, 6, 1, 4, 7, 9, 8, 0, 4>>],
        [int |-> 77, frac |-> <<9, 3, 0, 5, 2, 3, 8, 0, 5, 2, 3, 0, 4, 2, 2, 2, 1, 6>>],
        [int |-> 79, frac |-> <<0, 8, 1, 9, 4, 4, 4, 8, 7, 8, 4, 8, 7, 3, 0, 4, 1, 5>>],
        [int |-> 80, frac |-> <<2, 3, 2, 0, 9, 7, 8, 4, 8, 7, 6, 2, 7, 1, 5, 6, 6, 8>>],
        [int |-> 81, frac |-> <<3, 8, 1, 0, 1, 5, 1, 8, 8, 8, 9, 9, 1, 0, 4, 5, 0, 8>>],
        [int |-> 82, frac |-> <<5, 2, 8, 7, 2, 6, 5, 4, 1, 4, 7, 1, 7, 9, 3, 1, 1, 3>>],
        [int |-> 83, frac |-> <<6, 7, 5, 2, 6, 0, 7, 4, 2, 7, 2, 0, 9, 8, 5, 2, 0, 9>>],
        [int |-> 84, frac |-> <<8, 2, 0, 6, 4, 5, 4, 9, 7, 6, 5, 6, 6, 6, 5, 5, 1, 0>>],
        [int |-> 85, frac |-> <<9, 6, 4, 9, 0, 7, 4, 4, 1, 2, 3, 0, 9, 5, 8, 7, 2, 7>>]
    >>

RECURSIVE FracExceeds(_, _, _, _)
\* r / d, with 0 <= r < d, is above the decimal fraction whose digits from the
\* i-th on are digits[i], digits[i+1], ... followed by digits that are not all 0
FracExceeds(r, d, digits, i) ==
    IF i > Len(digits) THEN FALSE
    ELSE LET digit == (r * 10) \div d
         IN  IF digit # digits[i] THEN digit > digits[i]
             ELSE FracExceeds((r * 10) % d, d, digits, i + 1)

\* The statistic, with a denominator below 2^31 / 10, is above the upper 5%
\* point.  The code compares binary64 numbers, which carry about 16 digits:
\* the two agree on every statistic that parts from the point within them.
ExceedsCrit05(stat, dof) ==
    LET c == Chi2Crit05[dof]
        whole == stat.num \div stat.den
    IN  IF whole # c.int THEN whole > c.int
        ELSE FracExceeds(stat.num % stat.den, stat.den, c.frac, 1)

\* chi2.sf(stat, dof): 1 at 0, NaN with dof = 0 (the distribution is
\* undefined), and otherwise a number that is not rational, kept as the
\* pair it is the survival function of.
Chi2Sf(stat, dof) ==
    IF dof < 1 THEN RatNaN
    ELSE IF stat.num = 0 THEN RatInt(1)
    ELSE [sf |-> stat, dof |-> dof]

\* p < 0.05 for a p-value p (line 53); a comparison with NaN is false
BelowAlpha(p) ==
    IF "sf" \in DOMAIN p THEN ExceedsCrit05(p.sf, p.dof)
    ELSE RatLt(p, [num |-> 1, den |-> 20])

\* A variant of DegenerateTable that never takes the special case.
DegenerateTable_Never(dof) == FALSE

\* The case chi2_contingency does not hand to power_divergence: a table with
\* one row or one column, where observed = expected.
DegenerateTable(dof) == dof = 0

chi2_contingency(observed) ==
    LET cells == observed.index \X observed.columns
        nrows == Cardinality(observed.index)
        ncols == Cardinality(observed.columns)
        size  == nrows * ncols
    IN  IF size = 0 THEN [status |-> "ValueError"]
        ELSE
        LET expected == expected_freq(observed)
            \* expected.size - sum(expected.shape) + expected.ndim - 1
            dof == size - (nrows + ncols) + 2 - 1
            fobs == [k \in cells |->
                       IF dof = 1 THEN YatesAdjusted(RatInt(observed.cell[k]), expected[k])
                       ELSE RatInt(observed.cell[k])]
            chi2 == IF DegenerateTable(dof) THEN RatInt(0)
                    ELSE Pearson(fobs, expected, cells)
            p    == IF DegenerateTable(dof) THEN RatInt(1) ELSE Chi2Sf(chi2, dof)
        IN  IF \E k \in cells : expected[k].num = 0 THEN [status |-> "ValueError"]
            ELSE [status |-> "ok", chi2 |-> chi2, p |-> p, dof |-> dof,
                  expected |-> expected]

\* ------------------------------------------------ perform_chi2_test (l. 20)
perform_chi2_test(data) ==
    IF ~({"pitch_type", "count"} \subseteq data.columns) THEN [status |-> "KeyError"]
    ELSE
    LET contingency == crosstab(data)
        r == chi2_contingency(contingency)
    IN  IF r.status # "ok" THEN [status |-> r.status]
        ELSE [status |-> "ok", chi2 |-> r.chi2, p |-> r.p, dof |-> r.dof,
              expected |-> r.expected, contingency |-> contingency]


\* --------------------------------------------- analyze_independence (l. 45)
\* A variant of analyze_independence that rejects at p <= 0.05.
analyze_independence_Le(p, season) ==
    IF (IF "sf" \in DOMAIN p THEN ExceedsCrit05(p.sf, p.dof)
        ELSE RatLe(p, [num |-> 1, den |-> 20]))
    THEN [kind |-> "independence", season |-> season, conclusion |-> "dependent"]
    ELSE [kind |-> "independence", season |-> season, conclusion |-> "independent"]

analyze_independence(p, season) ==
    IF BelowAlpha(p)
    THEN [kind |-> "independence", season |-> season, conclusion |-> "dependent"]
    ELSE [kind |-> "independence", season |-> season, conclusion |-> "independent"]

\* ---------------------------------------------- calculate_residuals (l. 58)
\* The code subtracts and rounds binary64 numbers, and at a difference such as
\* 0.05 the result of round(1) hangs on the rounding errors of the operands.
\* A binary64 number is [sign, mant, exp]: sign * mant * 2^exp, where mant is
\* a sequence of 53 bits, the first of them 1, or empty for the number 0.
\* Whole numbers of any size are sequences of bits, the first the highest.
Zeros(n) == IF n < 1 THEN << >> ELSE << >> \o [i \in 1..n |-> 0]

RECURSIVE BitsOf(_)
BitsOf(n) == IF n = 0 THEN << >> ELSE Append(BitsOf(n \div 2), n % 2)

RECURSIVE IntOf(_)
IntOf(B) == IF B = << >> THEN 0 ELSE 2 * IntOf(SubSeq(B, 1, Len(B) - 1)) + B[Len(B)]

Pad(B, n) == Zeros(n - Len(B)) \o B

Strip(B) ==
    LET ones == {i \in DOMAIN B : B[i] = 1}
    IN  IF ones = {} THEN << >>
        ELSE SubSeq(B, CHOOSE i \in ones : \A j \in ones : i <= j, Len(B))

\* A + B of two sequences of the same length: position k receives a carry
\* when a position below it has two 1s and every position between has one.
CarryInto(A, B, k) ==
    \E j \in (k + 1)..Len(A) :
        /\ A[j] + B[j] = 2
        /\ \A m \in (k + 1)..(j - 1) : A[m] + B[m] = 1

BitsAdd(A, B) ==
    LET n == 1 + (IF Len(A) > Len(B) THEN Len(A) ELSE Len(B))
        X == Pad(A, n)
        Y == Pad(B, n)
    IN  Strip(<< >> \o [k \in 1..n |->
                (X[k] + Y[k] + (IF CarryInto(X, Y, k) THEN 1 ELSE 0)) % 2])

\* A - B of two sequences of the same length, A >= B: position k lends
\* when a position below it has 0 over 1 and every position between has
\* equal bits.
BorrowFrom(A, B, k) ==
    \E j \in (k + 1)..Len(A) :
        /\ A[j] < B[j]
        /\ \A m \in (k + 1)..(j - 1) : A[m] = B[m]

BitsSub(A, B) ==
    << >> \o [k \in 1..Len(A) |->
        (2 + A[k] - B[k] - (IF BorrowFrom(A, B, k) THEN 1 ELSE 0)) % 2]

\* A < B for two sequences of the same length
BitsLess(A, B) ==
    \E i \in DOMAIN A : A[i] < B[i] /\ \A j \in 1..(i - 1) : A[j] = B[j]

RECURSIVE PowMod2(_, _)
\* 2^t modulo b, for b below 46341
PowMod2(t, b) ==
    IF t = 0 THEN 1 % b
    ELSE LET h == PowMod2(t \div 2, b)
         IN  (((h * h) % b) * (IF t % 2 = 1 THEN 2 ELSE 1)) % b

FloatZero == [sign |-> 1, mant |-> << >>, exp |-> 0]

\* The binary64 number nearest to sign * (B + f) * 2^e, where the fraction f
\* is 0 unless `more`, and then strictly between 0 and 1; a tie goes to the
\* even mantissa.
RoundToFloat(sign, B0, more, e) ==
    LET B == Strip(B0)
        n == Len(B)
    IN  IF n = 0 THEN FloatZero
        ELSE IF n <= 53 THEN [sign |-> sign, mant |-> B \o Zeros(53 - n), exp |-> e - (53 - n)]
        ELSE
        LET top  == SubSeq(B, 1, 53)
            rest == more \/ \E i \in 55..n : B[i] = 1
            up   == B[54] = 1 /\ (rest \/ top[53] = 1)
            inc  == IF up THEN BitsAdd(top, <<1>>) ELSE top
        IN  [sign |-> sign, mant |-> SubSeq(inc, 1, 53),
             exp |-> e + (n - 53) + (Len(inc) - 53)]

\* The binary64 quotient a / b of two whole numbers, a >= 0 and 0 < b < 46341:
\* the whole part of a * 2^s / b, which has 55 bits or more, is rounded.  Its
\* bit of weight 2^(-t) is the whole part of 2 * (a * 2^(t-1) mod b) / b.
FloatDiv(a, b) ==
    LET s   == 54 + Len(BitsOf(b))
        r0  == a % b
        low == [t \in 1..s |-> (2 * ((r0 * PowMod2(t - 1, b)) % b)) \div b]
    IN  RoundToFloat(1, BitsOf(a \div b) \o low, (r0 * PowMod2(s, b)) % b # 0, -s)

\* the binary64 value of a positive rational: a cell of `expected`
Float64(q) == FloatDiv(q.num, q.den)

\* the binary64 difference o - f of a whole number o >= 0 and a binary64
\* number f > 0 that is below 2^52
FloatSubFrom(o, f) ==
    LET A0 == BitsOf(o) \o Zeros(-f.exp)
        n  == IF Len(A0) > Len(f.mant) THEN Len(A0) ELSE Len(f.mant)
        A  == Pad(A0, n)
        M == Pad(f.mant, n)
    IN  IF BitsLess(A, M) THEN RoundToFloat(-1, BitsSub(M, A), FALSE, f.exp)
        ELSE RoundToFloat(1, BitsSub(A, M), FALSE, f.exp)

\* the binary64 product 10 * f
FloatTimes10(f) ==
    IF f.mant = << >> THEN f
    ELSE RoundToFloat(f.sign, BitsAdd(f.mant \o Zeros(3), f.mant \o Zeros(1)), FALSE, f.exp)

\* np.rint of a binary64 number below 2^31 in size: the nearest whole number,
\* a tie going to the even one
FloatRint(f) ==
    LET k == -f.exp
    IN  IF f.mant = << >> \/ k >= 54 THEN 0
        ELSE
        LET whole == IntOf(SubSeq(f.mant, 1, 53 - k))
            rest  == \E i \in (55 - k)..53 : f.mant[i] = 1
            up    == f.mant[54 - k] = 1 /\ (rest \/ whole % 2 = 1)
        IN  f.sign * (IF up THEN whole + 1 ELSE whole)

\* ndarray.round(1) is rint(x * 10) / 10; the result in tenths.
RoundTenths(f) == FloatRint(FloatTimes10(f))

calculate_residuals(contingency, expected) ==
    [k \in contingency.index \X contingency.columns |->
        RoundTenths(FloatSubFrom(contingency.cell[k], Float64(expected[k])))]

\* ------------------------------------------------ most_likely_pitch (l. 83)
\* subset.groupby('pitch_type')['release_speed'].mean(): the groups are the
\* pitch types present at the count; a mean skips the missing speeds and is
\* NaN when the group has none.
GroupKeys(data, count) ==
    {data.rows[i].pitch_type :
        i \in {j \in Rows(data) : data.rows[j].count = count
                                  /\ data.rows[j].pitch_type # NaN}}

\* A variant of GroupMean that takes the fastest pitch of the group, not the mean.
GroupMean_Max(data, count, ptype) ==
    LET members == {i \in Rows(data) : /\ data.rows[i].count = count
                                       /\ data.rows[i].pitch_type = ptype
                                       /\ data.rows[i].release_speed # NoSpeed}
    IN  IF members = {} THEN RatNaN
        ELSE RatInt(data.rows[CHOOSE i \in members : \A j \in members :
                        data.rows[j].release_speed[1] <= data.rows[i].release_speed[1]
                     ].release_speed[1])

GroupMean(data, count, ptype) ==
    LET members == {i \in Rows(data) : /\ data.rows[i].count = count
                                       /\ data.rows[i].pitch_type = ptype
                                       /\ data.rows[i].release_speed # NoSpeed}
        speed == [i \in members |-> data.rows[i].release_speed[1]]
    IN  IF members = {} THEN RatNaN
        ELSE Rat(IntSum(speed, members), Cardinality(members))

avg_speeds(data, count) ==
    [t \in GroupKeys(data, count) |-> GroupMean(data, count, t)]

\* Series.max(): the largest value that is not NaN, NaN when there is none
SeriesMax(series) ==
    LET valid == {t \in DOMAIN series : ~IsNaN(series[t])}
    IN  IF valid = {} THEN RatNaN
        ELSE series[CHOOSE t \in valid : \A u \in valid : RatLe(series[u], series[t])]

\* Series.idxmax(): the first label, in index order, holding the largest value
\* that is not NaN.  With no such value the result depends on the pandas
\* release: the label NaN (before 3.0) or a ValueError (from 3.0 on).
SeriesIdxmax(series) ==
    LET valid == {t \in DOMAIN series : ~IsNaN(series[t])}
        best  == {t \in valid : \A u \in valid : RatLe(series[u], series[t])}
    IN  IF valid = {} THEN NaN
        ELSE CHOOSE t \in best : \A u \in best : Rank(t) <= Rank(u)

most_likely_pitch(contingency_table, data, all_na) ==
    IF contingency_table.columns # {} /\ ~("release_speed" \in data.columns)
    THEN [status |-> "KeyError"]
    ELSE IF all_na = "raise"
            /\ \E c \in contingency_table.columns : IsNaN(SeriesMax(avg_speeds(data, c)))
    THEN [status |-> "ValueError"]
    ELSE [status |-> "ok",
          entries |-> [c \in contingency_table.columns |->
                         [pitch_type |-> SeriesIdxmax(avg_speeds(data, c)),
                          speed      |-> SeriesMax(avg_speeds(data, c))]]]


\* ------------------------------------------------------------------- state
VARIABLES
    all_na,       \* what Series.idxmax does on all-NaN values in this build
    fs,           \* the two CSV files, by season
    run,          \* which `if __name__ == "__main__"` block is executing
    pc,           \* the statement of main() to execute next
    status,       \* "running", "exited", or the exception that ended the process
    data,         \* main's data_2019 / data_2022
    test,         \* main's chi2_, p_, dof_, expected_, contingency_ by season
    residuals,    \* main's residuals_2019 / residuals_2022
    most_likely,  \* main's most_likely_pitch_2019 / most_likely_pitch_2022
    hist,         \* the statements executed so far, in order
    out,          \* what was printed and shown so far, in order
    call          \* a single function applied to an argument: [fn, arg, season, ret, then]

vars == <<all_na, fs, run, pc, status, data, test, residuals, most_likely,
          hist, out, call>>
mainVars == <<all_na, fs, run, pc, status, data, test, residuals, most_likely,
              hist, out>>

Unset == [status |-> "unset"]
Pending == [status |-> "pending"]
NoCall == [fn |-> "none", arg |-> Unset, season |-> "2019", ret |-> Unset, then |-> Unset]
NoLocals == [s \in SeasonSet |-> Unset]
NoFile == [exists |-> FALSE, columns |-> {}, rows |-> << >>]
File(cols, rows) == [exists |-> TRUE, columns |-> cols, rows |-> rows]

PitchRecord(t, c, v) == [pitch_type |-> t, count |-> c, release_speed |-> v]

\* main() is not running: the state of the specifications that apply one function
MainIdle ==
    /\ all_na \in {"nan", "raise"}
    /\ fs = [s \in SeasonSet |-> NoFile]
    /\ run = 1
    /\ pc = 1
    /\ status = "idle"
    /\ data = NoLocals
    /\ test = NoLocals
    /\ residuals = NoLocals
    /\ most_likely = NoLocals
    /\ hist = << >>
    /\ out = << >>

Tables(Recs, n) == UNION {[1..k -> Recs] : k \in 0..n}

\* ----------------------------------------- perform_chi2_test on its own
Chi2Types == {"CU", "FF", "SL", NaN}
Chi2Counts == {"0-0", "3-2", NaN}
Chi2Records == {PitchRecord(t, c, <<95>>) : t \in Chi2Types, c \in Chi2Counts}

InitChi2 ==
    /\ MainIdle
    /\ all_na = "nan"
    /\ \E rows \in Tables(Chi2Records, MaxRecords) :
          call = [fn |-> "perform_chi2_test", arg |-> Frame(AllColumns, rows),
                  season |-> "2019", ret |-> Pending, then |-> Unset]

CallPerformChi2Test ==
    /\ call.fn = "perform_chi2_test"
    /\ call.ret = Pending
    /\ call' = [call EXCEPT !.ret = perform_chi2_test(call.arg)]
    /\ UNCHANGED mainVars

\* main() hands the p-value of the test to analyze_independence (l. 138, 146)
ThenAnalyzeIndependence ==
    /\ call.fn = "perform_chi2_test"
    /\ call.ret.status = "ok"
    /\ call.then = Unset
    /\ call' = [call EXCEPT !.then = analyze_independence(call.ret.p, call.season)]
    /\ UNCHANGED mainVars

NextChi2 ==
    \/ CallPerformChi2Test
    \/ ThenAnalyzeIndependence
SpecChi2 == InitChi2 /\ [][NextChi2]_vars

\* ----------------------------------------- most_likely_pitch on its own
PitchTypes == {"FF", "SL", NaN}
PitchCounts == {"0-0", "3-2", NaN}
PitchSpeeds == {<<95>>, <<96>>, NoSpeed}
PitchRecords ==
    {PitchRecord(t, c, v) : t \in PitchTypes, c \in PitchCounts, v \in PitchSpeeds}

InitPitch ==
    /\ MainIdle
    /\ \E rows \in Tables(PitchRecords, MaxPitchRecords) :
          call = [fn |-> "most_likely_pitch", arg |-> Frame(AllColumns, rows),
                  season |-> "2019", ret |-> Pending, then |-> Unset]

\* main() hands most_likely_pitch the contingency table of the same data
CallMostLikelyPitch ==
    /\ call.fn = "most_likely_pitch"
    /\ call.ret = Pending
    /\ call' = [call EXCEPT !.ret = most_likely_pitch(crosstab(call.arg), call.arg, all_na)]
    /\ UNCHANGED mainVars

NextPitch == CallMostLikelyPitch
SpecPitch == InitPitch /\ [][NextPitch]_vars

\* ----------------------------------------- analyze_independence on its own
PValues == {RatNaN} \cup {Rat(n, d) : n \in 0..MaxPDen, d \in 1..MaxPDen}

InitIndep ==
    /\ MainIdle
    /\ all_na = "nan"
    /\ \E p \in {q \in PValues : IsNaN(q) \/ RatLe(q, RatInt(1))}, s \in SeasonSet :
          call = [fn |-> "analyze_independence", arg |-> p, season |-> s,
                  ret |-> Pending, then |-> Unset]

CallAnalyzeIndependence ==
    /\ call.fn = "analyze_independence"
    /\ call.ret = Pending
    /\ call' = [call EXCEPT !.ret = analyze_independence(call.arg, call.season)]
    /\ UNCHANGED mainVars

NextIndep == CallAnalyzeIndependence
SpecIndep == InitIndep /\ [][NextIndep]_vars


\* ------------------------------------------------------- load_data (l. 5)
\* pd.read_csv: the table of the file, or FileNotFoundError
read_csv(file) ==
    IF file.exists THEN [status |-> "ok", columns |-> file.columns, rows |-> file.rows]
    ELSE [status |-> "FileNotFoundError"]

\* Reads the 2019 file, then the 2022 file; the first failure ends the call.
load_data(file_2019, file_2022) ==
    LET d19 == read_csv(file_2019)
        d22 == read_csv(file_2022)
    IN  IF d19.status # "ok" THEN [status |-> d19.status, reads |-> <<"2019">>]
        ELSE IF d22.status # "ok" THEN [status |-> d22.status, reads |-> <<"2019", "2022">>]
        ELSE [status |-> "ok", reads |-> <<"2019", "2022">>,
              frames |-> [s \in SeasonSet |->
                            IF s = "2019" THEN Frame(d19.columns, d19.rows)
                            ELSE Frame(d22.columns, d22.rows)]]

\* ------------------------------------------------------------ main (l. 133)
\* A variant of Program that estimates the most likely pitches before it
\* calculates the residuals.
Program_EstimateFirst ==
    << [op |-> "load_data",               season |-> "both", line |-> 135],
       [op |-> "perform_chi2_test",       season |-> "2019", line |-> 138],
       [op |-> "perform_chi2_test",       season |-> "2022", line |-> 139],
       [op |-> "print_chi2_results",      season |-> "2019", line |-> 142],
       [op |-> "print_chi2_results",      season |-> "2022", line |-> 143],
       [op |-> "analyze_independence",    season |-> "2019", line |-> 146],
       [op |-> "analyze_independence",    season |-> "2022", line |-> 147],
       [op |-> "most_likely_pitch",       season |-> "2019", line |-> 156],
       [op |-> "most_likely_pitch",       season |-> "2022", line |-> 157],
       [op |-> "calculate_residuals",     season |-> "2019", line |-> 150],
       [op |-> "calculate_residuals",     season |-> "2022", line |-> 151],
       [op |-> "print_residuals",         season |-> "2019", line |-> 152],
       [op |-> "print_residuals",         season |-> "2022", line |-> 153],
       [op |-> "print_most_likely_pitch", season |-> "2019", line |-> 158],
       [op |-> "print_most_likely_pitch", season |-> "2022", line |-> 159],
       [op |-> "plot_pitch_distribution", season |-> "2019", line |-> 162],
       [op |-> "plot_pitch_distribution", season |-> "2022", line |-> 163] >>

\* The statements of main(), in order, with their source lines.
Program ==
    << [op |-> "load_data",               season |-> "both", line |-> 135],
       [op |-> "perform_chi2_test",       season |-> "2019", line |-> 138],
       [op |-> "perform_chi2_test",       season |-> "2022", line |-> 139],
       [op |-> "print_chi2_results",      season |-> "2019", line |-> 142],
       [op |-> "print_chi2_results",      season |-> "2022", line |-> 143],
       [op |-> "analyze_independence",    season |-> "2019", line |-> 146],
       [op |-> "analyze_independence",    season |-> "2022", line |-> 147],
       [op |-> "calculate_residuals",     season |-> "2019", line |-> 150],
       [op |-> "calculate_residuals",     season |-> "2022", line |-> 151],
       [op |-> "print_residuals",         season |-> "2019", line |-> 152],
       [op |-> "print_residuals",         season |-> "2022", line |-> 153],
       [op |-> "most_likely_pitch",       season |-> "2019", line |-> 156],
       [op |-> "most_likely_pitch",       season |-> "2022", line |-> 157],
       [op |-> "print_most_likely_pitch", season |-> "2019", line |-> 158],
       [op |-> "print_most_likely_pitch", season |-> "2022", line |-> 159],
       [op |-> "plot_pitch_distribution", season |-> "2019", line |-> 162],
       [op |-> "plot_pitch_distribution", season |-> "2022", line |-> 163] >>

\* The script's `if __name__ == "__main__": main()` blocks, by source line.
ScriptGuards == <<165, 168>>

At(op, s) ==
    /\ status = "running"
    /\ pc \in DOMAIN Program
    /\ Program[pc].op = op
    /\ Program[pc].season = s

Executed(op, s, ok) == [op |-> op, season |-> s, run |-> run, ok |-> ok]

\* The statement completed: control moves to the next statement of main().
Continue ==
    /\ pc' = pc + 1
    /\ status' = status
    /\ run' = run

\* A variant of Raise in which the exception is caught and main() goes on
\* with its next statement.
Raise_Isolated(e) ==
    /\ pc' = pc + 1
    /\ status' = status
    /\ run' = run

\* The statement raised: nothing catches it, so the interpreter prints the
\* traceback and the process ends.
Raise(e) ==
    /\ pc' = pc
    /\ status' = e
    /\ run' = run

LoadData ==
    /\ At("load_data", "both")
    /\ LET r == load_data(fs["2019"], fs["2022"])
       IN  /\ hist' = hist \o [i \in DOMAIN r.reads |->
                                  Executed("read_csv", r.reads[i],
                                           r.status = "ok" \/ i < Len(r.reads))]
           /\ IF r.status = "ok"
              THEN data' = r.frames /\ Continue
              ELSE data' = data /\ Raise(r.status)
    /\ UNCHANGED <<all_na, fs, test, residuals, most_likely, out, call>>

PerformChi2Test(s) ==
    /\ At("perform_chi2_test", s)
    /\ LET r == perform_chi2_test(data[s])
       IN  /\ hist' = hist \o <<Executed("perform_chi2_test", s, r.status = "ok")>>
           /\ IF r.status = "ok"
              THEN test' = [test EXCEPT ![s] = r] /\ Continue
              ELSE test' = test /\ Raise(r.status)
    /\ UNCHANGED <<all_na, fs, data, residuals, most_likely, out, call>>

\* print_chi2_results (l. 34)
PrintChi2Results(s) ==
    /\ At("print_chi2_results", s)
    /\ hist' = hist \o <<Executed("print_chi2_results", s, TRUE)>>
    /\ out' = Append(out, [kind |-> "chi2", season |-> s, run |-> run,
                           chi2 |-> test[s].chi2, p |-> test[s].p])
    /\ Continue
    /\ UNCHANGED <<all_na, fs, data, test, residuals, most_likely, call>>

AnalyzeIndependence(s) ==
    /\ At("analyze_independence", s)
    /\ hist' = hist \o <<Executed("analyze_independence", s, TRUE)>>
    /\ out' = Append(out, [kind |-> "independence", season |-> s, run |-> run,
                           conclusion |-> analyze_independence(test[s].p, s).conclusion])
    /\ Continue
    /\ UNCHANGED <<all_na, fs, data, test, residuals, most_likely, call>>

CalculateResiduals(s) ==
    /\ At("calculate_residuals", s)
    /\ hist' = hist \o <<Executed("calculate_residuals", s, TRUE)>>
    /\ residuals' = [residuals EXCEPT ![s] =
                        [status |-> "ok",
                         cell |-> calculate_residuals(test[s].contingency, test[s].expected)]]
    /\ Continue
    /\ UNCHANGED <<all_na, fs, data, test, most_likely, out, call>>

\* print_residuals (l. 72)
PrintResiduals(s) ==
    /\ At("print_residuals", s)
    /\ hist' = hist \o <<Executed("print_residuals", s, TRUE)>>
    /\ out' = Append(out, [kind |-> "residuals", season |-> s, run |-> run,
                           cell |-> residuals[s].cell])
    /\ Continue
    /\ UNCHANGED <<all_na, fs, data, test, residuals, most_likely, call>>

MostLikelyPitch(s) ==
    /\ At("most_likely_pitch", s)
    /\ LET r == most_likely_pitch(test[s].contingency, data[s], all_na)
       IN  /\ hist' = hist \o <<Executed("most_likely_pitch", s, r.status = "ok")>>
           /\ IF r.status = "ok"
              THEN most_likely' = [most_likely EXCEPT ![s] = r] /\ Continue
              ELSE most_likely' = most_likely /\ Raise(r.status)
    /\ UNCHANGED <<all_na, fs, data, test, residuals, out, call>>

\* print_most_likely_pitch (l. 103)
PrintMostLikelyPitch(s) ==
    /\ At("print_most_likely_pitch", s)
    /\ hist' = hist \o <<Executed("print_most_likely_pitch", s, TRUE)>>
    /\ out' = Append(out, [kind |-> "most_likely", season |-> s, run |-> run,
                           entries |-> most_likely[s].entries])
    /\ Continue
    /\ UNCHANGED <<all_na, fs, data, test, residuals, most_likely, call>>

\* plot_pitch_distribution (l. 115): the chart of the season's cross-tabulation
PlotPitchDistribution(s) ==
    /\ At("plot_pitch_distribution", s)
    /\ hist' = hist \o <<Executed("plot_pitch_distribution", s, TRUE)>>
    /\ out' = Append(out, [kind |-> "chart", season |-> s, run |-> run,
                           table |-> crosstab(data[s])])
    /\ Continue
    /\ UNCHANGED <<all_na, fs, data, test, residuals, most_likely, call>>

\* main() returns to the script: the next guard block calls it again with
\* fresh locals, and after the last block the interpreter exits.
MainReturn ==
    /\ status = "running"
    /\ pc = Len(Program) + 1
    /\ IF run < Len(ScriptGuards)
       THEN /\ run' = run + 1
            /\ pc' = 1
            /\ status' = status
       ELSE /\ run' = run
            /\ pc' = pc
            /\ status' = "exited"
    /\ data' = NoLocals
    /\ test' = NoLocals
    /\ residuals' = NoLocals
    /\ most_likely' = NoLocals
    /\ UNCHANGED <<all_na, fs, hist, out, call>>

\* The files the two seasons range over.
DependentRows ==
    [i \in 1..10 |-> IF i <= 5 THEN PitchRecord("FF", "0-0", <<97>>)
                     ELSE PitchRecord("SL", "3-2", <<95>>)]
MainRows ==
    { << >>,
      <<PitchRecord("FF", "0-0", <<95>>)>>,
      <<PitchRecord("FF", "0-0", NoSpeed)>>,
      <<PitchRecord("FF", NaN, <<95>>)>>,
      <<PitchRecord("FF", "0-0", <<95>>), PitchRecord("FF", "3-2", <<97>>)>>,
      <<PitchRecord("FF", "0-0", <<95>>), PitchRecord("SL", "3-2", <<97>>),
        PitchRecord("CU", "3-2", NoSpeed)>>,
      DependentRows }
MainColumns ==
    {AllColumns, AllColumns \ {"release_speed"}, AllColumns \ {"count"},
     AllColumns \ {"pitch_type"}}
MainFiles == {NoFile} \cup {File(c, r) : c \in MainColumns, r \in MainRows}

InitMain ==
    /\ all_na \in {"nan", "raise"}
    /\ fs \in [SeasonSet -> MainFiles]
    /\ run = 1
    /\ pc = 1
    /\ status = "running"
    /\ data = NoLocals
    /\ test = NoLocals
    /\ residuals = NoLocals
    /\ most_likely = NoLocals
    /\ hist = << >>
    /\ out = << >>
    /\ call = NoCall

NextMain ==
    \/ LoadData
    \/ \E s \in SeasonSet : PerformChi2Test(s)
    \/ \E s \in SeasonSet : PrintChi2Results(s)
    \/ \E s \in SeasonSet : AnalyzeIndependence(s)
    \/ \E s \in SeasonSet : CalculateResiduals(s)
    \/ \E s \in SeasonSet : PrintResiduals(s)
    \/ \E s \in SeasonSet : MostLikelyPitch(s)
    \/ \E s \in SeasonSet : PrintMostLikelyPitch(s)
    \/ \E s \in SeasonSet : PlotPitchDistribution(s)
    \/ MainReturn

SpecMain == InitMain /\ [][NextMain]_vars


\* ================================================================== claims
\* What the claims speak of, read off the input of the call.
Returned(fn) == call.fn = fn /\ call.ret # Pending
ReturnedOk(fn) == call.fn = fn /\ call.ret.status = "ok"

\* the records with both labels present, and the labels they carry
PresentRows(d) ==
    {i \in DOMAIN d.rows : d.rows[i].pitch_type # NaN /\ d.rows[i].count # NaN}
TypesOf(d) == {d.rows[i].pitch_type : i \in PresentRows(d)}
CountsOf(d) == {d.rows[i].count : i \in PresentRows(d)}
\* every label of a column, whatever the other label of the record
AllTypesOf(d) == {d.rows[i].pitch_type : i \in DOMAIN d.rows} \ {NaN}
AllCountsOf(d) == {d.rows[i].count : i \in DOMAIN d.rows} \ {NaN}

\* ---- C1
\* C1 as claimed: the cells of the contingency table built by perform_chi2_test
\* sum to the number of input records, records with a missing pitch_type or
\* count included.
C1_TotalIsAllRecords ==
    ReturnedOk("perform_chi2_test") =>
        TableTotal(call.ret.contingency) = Len(call.arg.rows)

\* C1 as amended: the cells of the contingency table built by perform_chi2_test
\* sum to the number of input records whose pitch_type and count are both
\* present; a record with either one missing is counted in no cell.
C1_TotalIsPresentRecords ==
    ReturnedOk("perform_chi2_test") =>
        TableTotal(call.ret.contingency) = Cardinality(PresentRows(call.arg))

C1_Witness ==
    /\ ReturnedOk("perform_chi2_test")
    /\ Cardinality(PresentRows(call.arg)) = 2
    /\ Len(call.arg.rows) = 4
    /\ \E k \in DOMAIN call.ret.contingency.cell : call.ret.contingency.cell[k] = 2

\* ---- C6
Degenerate(d) == Cardinality(TypesOf(d)) < 2 \/ Cardinality(CountsOf(d)) < 2

\* C6 as claimed: with fewer than 2 rows or fewer than 2 columns the test
\* fails or yields NaN, and no p-value of it is ever classified.
C6_DegenerateNeverClassified ==
    (Returned("perform_chi2_test") /\ Degenerate(call.arg)) =>
        /\ call.ret.status # "ok" \/ IsNaN(call.ret.p)
        /\ call.then = Unset

\* C6 as amended: with no row and no column (no record has both labels) the
\* test fails with an error; with exactly one row or exactly one column it
\* succeeds with statistic 0, 0 degrees of freedom and the p-value 1, which
\* analyze_independence classifies as "independent".
C6_DegenerateIsIndependent ==
    (Returned("perform_chi2_test") /\ Degenerate(call.arg)) =>
        IF PresentRows(call.arg) = {}
        THEN call.ret.status = "ValueError" /\ call.then = Unset
        ELSE /\ call.ret.status = "ok"
             /\ call.ret.chi2 = RatInt(0)
             /\ call.ret.dof = 0
             /\ call.ret.p = RatInt(1)
             /\ call.then # Unset => call.then.conclusion = "independent"

C6_Witness ==
    /\ ReturnedOk("perform_chi2_test")
    /\ Cardinality(TypesOf(call.arg)) = 1
    /\ Cardinality(CountsOf(call.arg)) = 2
    /\ call.then # Unset
    /\ call.then.conclusion = "independent"

\* ---- C7
\* sum over the cells of (|observed - expected| - shrink)^2 / expected, with
\* expected = row total * column total / grand total and the difference never
\* shrunk below 0
ShrunkStatistic(t, shrink) ==
    LET cells == t.index \X t.columns
    IN  RatSum([k \in cells |->
                  LET e == Rat(RowTotal(t, k[1]) * ColTotal(t, k[2]), TableTotal(t))
                      a == RatAbs(RatSub(RatInt(t.cell[k]), e))
                      d == IF RatLt(a, shrink) THEN RatInt(0) ELSE RatSub(a, shrink)
                  IN  RatDiv(RatMul(d, d), e)], cells)

AtLeast2x2(t) == Cardinality(t.index) >= 2 /\ Cardinality(t.columns) >= 2
Is2x2(t) == Cardinality(t.index) = 2 /\ Cardinality(t.columns) = 2

\* C7 as claimed: for every table with at least 2 rows and 2 columns, 2x2
\* tables included, the statistic is the sum of (observed - expected)^2 /
\* expected with no adjustment of the differences.
C7_StatisticIsPlainPearson ==
    (ReturnedOk("perform_chi2_test") /\ AtLeast2x2(call.ret.contingency)) =>
        call.ret.chi2 = ShrunkStatistic(call.ret.contingency, RatInt(0))

\* C7 as amended: for every table with at least 2 rows and 2 columns other
\* than a 2x2 table, the statistic is the sum of (observed - expected)^2 /
\* expected; for a 2x2 table every difference is first moved towards 0 by
\* min(0.5, |observed - expected|) (Yates' continuity correction).
C7_StatisticIsPearsonWithYates ==
    (ReturnedOk("perform_chi2_test") /\ AtLeast2x2(call.ret.contingency)) =>
        call.ret.chi2 =
            ShrunkStatistic(call.ret.contingency,
                            IF Is2x2(call.ret.contingency) THEN Rat(1, 2) ELSE RatInt(0))

C7_Witness ==
    /\ ReturnedOk("perform_chi2_test")
    /\ Is2x2(call.ret.contingency)
    /\ call.ret.chi2 # RatInt(0)
    /\ call.ret.chi2 # ShrunkStatistic(call.ret.contingency, RatInt(0))

\* ---- C8
\* C8: the cells of the expected-frequency table sum to the sum of the cells
\* of the observed table, and the two tables have the same cells.
C8_ExpectedSumsToObserved ==
    ReturnedOk("perform_chi2_test") =>
        /\ DOMAIN call.ret.expected = DOMAIN call.ret.contingency.cell
        /\ DOMAIN call.ret.expected = call.ret.contingency.index \X call.ret.contingency.columns
        /\ RatSum(call.ret.expected, DOMAIN call.ret.expected)
              = RatInt(TableTotal(call.ret.contingency))

C8_Witness ==
    /\ ReturnedOk("perform_chi2_test")
    /\ AtLeast2x2(call.ret.contingency)
    /\ \E k \in DOMAIN call.ret.expected : call.ret.expected[k].den = 3
    /\ \E k \in DOMAIN call.ret.contingency.cell : call.ret.contingency.cell[k] = 0

\* ---- C9
\* C9 as claimed: the degrees of freedom are (distinct pitch types in the data
\* - 1) * (distinct counts in the data - 1).
C9_DofFromAllLabels ==
    ReturnedOk("perform_chi2_test") =>
        call.ret.dof = (Cardinality(AllTypesOf(call.arg)) - 1)
                       * (Cardinality(AllCountsOf(call.arg)) - 1)

\* C9 as amended: the degrees of freedom are (distinct pitch types - 1) *
\* (distinct counts - 1), where only the records with both the pitch_type and
\* the count present are looked at.
C9_DofFromPresentLabels ==
    ReturnedOk("perform_chi2_test") =>
        call.ret.dof = (Cardinality(TypesOf(call.arg)) - 1)
                       * (Cardinality(CountsOf(call.arg)) - 1)

C9_Witness ==
    /\ ReturnedOk("perform_chi2_test")
    /\ call.ret.dof = 2
    /\ Cardinality(AllCountsOf(call.arg)) = 2
    /\ \E i \in DOMAIN call.arg.rows : call.arg.rows[i].pitch_type = NaN


\* ---- C2
\* the pitch types thrown at count c, and the records of type t at c whose
\* release_speed was recorded
ThrownAt(d, c) ==
    {d.rows[i].pitch_type :
        i \in {j \in DOMAIN d.rows : d.rows[j].count = c /\ d.rows[j].pitch_type # NaN}}
TimedAt(d, c, t) ==
    {i \in DOMAIN d.rows : /\ d.rows[i].count = c
                           /\ d.rows[i].pitch_type = t
                           /\ d.rows[i].release_speed # NoSpeed}
SpeedTotal(d, S) == IntSum([i \in S |-> d.rows[i].release_speed[1]], S)

\* m is the mean release_speed of type t at count c
IsMeanAt(d, c, t, m) ==
    /\ TimedAt(d, c, t) # {}
    /\ m.den > 0
    /\ m.num * Cardinality(TimedAt(d, c, t)) = m.den * SpeedTotal(d, TimedAt(d, c, t))
\* the mean release_speed of type u at count c is strictly greater than m
MeanExceeds(d, c, u, m) ==
    /\ TimedAt(d, c, u) # {}
    /\ SpeedTotal(d, TimedAt(d, c, u)) * m.den > m.num * Cardinality(TimedAt(d, c, u))

FastestAt(d, c, e) ==
    /\ e.pitch_type \in ThrownAt(d, c)
    /\ IsMeanAt(d, c, e.pitch_type, e.speed)
    /\ \A u \in ThrownAt(d, c) : ~MeanExceeds(d, c, u, e.speed)

\* the counts of the table at which no pitch has a recorded release_speed
Untimed(d) == {c \in CountsOf(d) : \A t \in ThrownAt(d, c) : TimedAt(d, c, t) = {}}

\* C2 as claimed: for every count that is a column of the contingency table
\* most_likely_pitch returns one entry (pitch_type, speed): the type was thrown
\* at the count, speed is its mean release_speed there, and no type thrown at
\* the count has a strictly greater mean.
C2_EveryCountHasFastest ==
    Returned("most_likely_pitch") =>
        /\ call.ret.status = "ok"
        /\ DOMAIN call.ret.entries = CountsOf(call.arg)
        /\ \A c \in CountsOf(call.arg) : FastestAt(call.arg, c, call.ret.entries[c])

\* C2 as amended: the claim holds for every count column at which some pitch
\* has a recorded release_speed, the means being taken over the recorded
\* speeds.  For a count column with no recorded release_speed the entry is
\* (NaN, NaN), or the call raises ValueError, as the pandas release has it.
C2_TimedCountsHaveFastest ==
    Returned("most_likely_pitch") =>
        IF Untimed(call.arg) # {} /\ all_na = "raise"
        THEN call.ret.status = "ValueError"
        ELSE /\ call.ret.status = "ok"
             /\ DOMAIN call.ret.entries = CountsOf(call.arg)
             /\ \A c \in CountsOf(call.arg) :
                   IF c \in Untimed(call.arg)
                   THEN call.ret.entries[c] = [pitch_type |-> NaN, speed |-> RatNaN]
                   ELSE FastestAt(call.arg, c, call.ret.entries[c])

C2_Witness ==
    /\ ReturnedOk("most_likely_pitch")
    /\ \E c \in DOMAIN call.ret.entries :
          /\ Cardinality(ThrownAt(call.arg, c)) = 2
          /\ call.ret.entries[c].speed.den = 2
          /\ call.ret.entries[c].pitch_type = "SL"

\* ---- C3
\* C3: analyze_independence reports "dependent" exactly when the p-value is
\* strictly below 1/20 and "independent" otherwise, at 1/20 itself too, for
\* either season.
C3_DependentIffBelowAlpha ==
    Returned("analyze_independence") =>
        /\ call.ret.conclusion \in {"dependent", "independent"}
        /\ call.ret.season = call.season
        /\ call.ret.conclusion = "dependent"
              <=> (call.arg.den > 0 /\ call.arg.num * 20 < call.arg.den)

C3_Witness ==
    /\ Returned("analyze_independence")
    /\ call.arg = [num |-> 1, den |-> 20]
    /\ call.season = "2022"
    /\ call.ret.conclusion = "independent"

\* ---- C4
\* how often a statement ran for a season, and how often a kind of output
\* was produced for it
TimesRun(op, s) ==
    Cardinality({i \in DOMAIN hist : hist[i].op = op /\ hist[i].season = s})
TimesOut(kind, s) ==
    Cardinality({i \in DOMAIN out : out[i].kind = kind /\ out[i].season = s})

\* C4: a run of the script without an error loads each season's data once,
\* prints each season's report once and shows each season's chart once.
C4_PipelineRunsOnce ==
    status = "exited" =>
        \A s \in SeasonSet :
            /\ TimesRun("read_csv", s) = 1
            /\ \A kind \in {"chi2", "independence", "residuals", "most_likely", "chart"} :
                  TimesOut(kind, s) = 1

\* ---- C5
\* every execution of statement b for a season was preceded, in the same call
\* of main(), by a completed execution of statement a for that season
Precedes(a, b) ==
    \A i \in DOMAIN hist :
        hist[i].op = b =>
            \E j \in 1..(i - 1) : /\ hist[j].op = a
                                  /\ hist[j].season = hist[i].season
                                  /\ hist[j].run = hist[i].run
                                  /\ hist[j].ok

\* C5 as claimed: a season's residuals are never calculated before its
\* most-likely-pitch estimation has finished, and nothing is reported for a
\* season before its residuals have been calculated.
C5_EstimateBeforeResiduals ==
    /\ Precedes("read_csv", "perform_chi2_test")
    /\ Precedes("perform_chi2_test", "most_likely_pitch")
    /\ Precedes("most_likely_pitch", "calculate_residuals")
    /\ \A r \in {"print_chi2_results", "analyze_independence", "print_residuals",
                 "print_most_likely_pitch", "plot_pitch_distribution"} :
          Precedes("calculate_residuals", r)

\* C5 as amended: for each season the order is Loader, Contingency Builder
\* with the Independence Tester, the report of the test and of its conclusion,
\* Residual Calculator, Most-Likely-Pitch Estimator, then the chart: a
\* season's residuals are always calculated before its most-likely-pitch
\* estimation starts; the test result and the conclusion are reported before
\* the residuals are calculated; the residuals, the most likely pitches and
\* the chart are reported after it.
C5_ResidualsBeforeEstimate ==
    /\ Precedes("read_csv", "perform_chi2_test")
    /\ Precedes("perform_chi2_test", "print_chi2_results")
    /\ Precedes("perform_chi2_test", "analyze_independence")
    /\ Precedes("print_chi2_results", "calculate_residuals")
    /\ Precedes("analyze_independence", "calculate_residuals")
    /\ Precedes("calculate_residuals", "most_likely_pitch")
    /\ Precedes("calculate_residuals", "print_residuals")
    /\ Precedes("most_likely_pitch", "print_most_likely_pitch")
    /\ Precedes("print_most_likely_pitch", "plot_pitch_distribution")

C5_Witness ==
    /\ status = "running"
    /\ run = 1
    /\ pc = Len(Program) + 1
    /\ \E i \in DOMAIN out : out[i].kind = "chart" /\ out[i].season = "2022"

\* ---- C10
FailedSteps == {i \in DOMAIN hist : ~hist[i].ok}
Crashed == status \notin {"running", "exited"}

\* C10: the first step that fails is the last step executed, for either
\* season: whatever main() had not yet done when it failed is never done, so
\* a failure in the 2022 data leaves the pending 2019 lines and both charts
\* out, and a failed load leaves the output empty.
C10_HaltsOnFirstError ==
    /\ Crashed <=> FailedSteps # {}
    /\ \A i \in FailedSteps : i = Len(hist)
    /\ Crashed =>
          /\ run = 1
          /\ \A k \in DOMAIN Program :
                k > pc => TimesRun(Program[k].op, Program[k].season) = 0
          /\ \A s \in SeasonSet : TimesOut("chart", s) = 0
          /\ Len(out) = Cardinality({k \in 1..(pc - 1) :
                            Program[k].op \notin {"load_data", "perform_chi2_test",
                                                  "calculate_residuals", "most_likely_pitch"}})
          /\ hist[Len(hist)].op \in {"read_csv", "perform_chi2_test"} => out = << >>

C10_Witness ==
    /\ status = "ValueError"
    /\ test["2019"].status = "ok"
    /\ hist[Len(hist)] = [op |-> "most_likely_pitch", season |-> "2022", run |-> 1, ok |-> FALSE]
    /\ most_likely["2019"].status = "ok"
    /\ TimesOut("residuals", "2019") = 1
    /\ TimesOut("most_likely", "2019") = 0

=============================================================================
